---- MODULE Spec2Model ----
(***************************************************************************)
(* Retry transports of openapi_client_core.transport.retry:                *)
(* IdempotentOnlyRetry and RateLimitAwareRetry.  One logical send          *)
(* (handle_async_request) of one request through one transport instance.   *)
(* Time is counted in whole seconds; an outcome of the wrapped transport   *)
(* is a response (status, Retry-After header) or a raised exception, and   *)
(* carries the number of the invocation that produced it.                  *)
(***************************************************************************)
EXTENDS Integers, Sequences, FiniteSets, TLC

\* ---------------------------------------------------------------- bounds
MaxRetriesBound == 2
MaxFactor == 2
MaxCap == 3
MaxDate == 5
MaxNow == 2
DeepRetries == 5
ConcRetries == 2

\* ------------------------------------------------------------- constants
IdempotentOnlyRetry == "IdempotentOnlyRetry"
RateLimitAwareRetry == "RateLimitAwareRetry"

IO_IDEMPOTENT_METHODS == {"HEAD", "GET", "OPTIONS", "TRACE"}
IO_DEFAULT_RETRY_STATUS_CODES == {502, 503, 504}
\* Variant: the narrow set of IdempotentOnlyRetry used by RateLimitAwareRetry.
RL_IDEMPOTENT_METHODS_narrow == {"HEAD", "GET", "OPTIONS", "TRACE"}
RL_IDEMPOTENT_METHODS == {"HEAD", "GET", "PUT", "DELETE", "OPTIONS", "TRACE"}
RL_DEFAULT_RETRY_5XX_STATUS_CODES == {502, 503, 504}

\* Request methods and response statuses the wrapped transport is driven with.
Methods == {"HEAD", "GET", "OPTIONS", "TRACE", "PUT", "DELETE", "POST", "PATCH"}
Statuses == {200, 404, 429, 500, 503}

\* ------------------------------------------------------ Retry-After values
\* A header value is absent, a text (a sequence of characters), or a text in
\* HTTP-date format that denotes the instant `date` (seconds).
AbsentHeader == [kind |-> "absent", text |-> <<>>, date |-> 0]
TextHeader(t) == [kind |-> "text", text |-> t, date |-> 0]
DateHeader(d) == [kind |-> "date", text |-> <<>>, date |-> d]
\* A text in HTTP-date format with a field too large for a C long, such as
\* "Wed, 21 Oct 99999999999999999999 07:28:00 GMT": int() raises ValueError
\* and parsedate_to_datetime raises OverflowError.
OverflowDateHeader == [kind |-> "overflow", text |-> <<>>, date |-> 0]

HeaderTexts ==
    { <<>>, <<"0">>, <<"2">>, <<"3", "0", "0">>, <<"-", "1">>, <<"s", "o", "o", "n">> }
HeaderDates == {1, MaxDate}
\* Clock readings datetime.now(UTC) may return.
ClockReadings == {0, 1, MaxNow}
\* Constructor arguments the transports are built with.
BackoffFactors == {1, MaxFactor}
MaxBackoffs == {1, MaxCap}
RetryAfterValues ==
    {AbsentHeader} \cup {TextHeader(t) : t \in HeaderTexts}
                   \cup {DateHeader(d) : d \in HeaderDates}
                   \cup {OverflowDateHeader}
\* The Retry-After values responses of each status are driven with: every
\* value on a 429, absent or a number of seconds on the other statuses.
RetryAfterFor(status) ==
    IF status = 429 THEN RetryAfterValues
    ELSE {AbsentHeader, TextHeader(<<"2">>)}

Digits == {"0", "1", "2", "3", "4", "5", "6", "7", "8", "9"}
DigitValue(c) ==
    CASE c = "0" -> 0 [] c = "1" -> 1 [] c = "2" -> 2 [] c = "3" -> 3
      [] c = "4" -> 4 [] c = "5" -> 5 [] c = "6" -> 6 [] c = "7" -> 7
      [] c = "8" -> 8 [] c = "9" -> 9

RECURSIVE DecimalValue(_)
DecimalValue(t) ==
    IF t = <<>> THEN 0
    ELSE 10 * DecimalValue(SubSeq(t, 1, Len(t) - 1)) + DigitValue(t[Len(t)])

AllDigits(t) == t # <<>> /\ \A i \in 1..Len(t) : t[i] \in Digits

\* int(retry_after): an optional sign followed by decimal digits; anything
\* else raises ValueError.
IntParses(t) ==
    \/ AllDigits(t)
    \/ Len(t) > 1 /\ t[1] \in {"-", "+"} /\ AllDigits(Tail(t))
IntValue(t) ==
    IF t[1] = "-" THEN 0 - DecimalValue(Tail(t))
    ELSE IF t[1] = "+" THEN DecimalValue(Tail(t))
    ELSE DecimalValue(t)

Min(a, b) == IF a <= b THEN a ELSE b

RECURSIVE Pow2(_)
Pow2(n) == IF n <= 0 THEN 1 ELSE 2 * Pow2(n - 1)

\* ------------------------------------------------------------------ state
VARIABLES
    self,           \* the transport instance: class and constructor fields
    configured,     \* the status-code argument the constructor was called with
    request,        \* the request of this send
    pc,             \* position of the send inside handle_async_request
    retries,        \* local `retries`
    last_response,  \* local `last_response`
    outcome,        \* outcome of the latest wrapped invocation
    delay,          \* delay passed to the latest asyncio.sleep
    now,            \* clock reading of the latest datetime.now(UTC)
    result,         \* what the send returned or raised
    calls,          \* wrapped-transport invocations made by this send
    sleeps,         \* asyncio.sleep calls made by this send
    allRetryable,   \* every outcome so far was a retryable response
    firstStop,      \* invocation that first got a non-retryable response, or 0
    delays,         \* the delays slept so far, each with where it came from
    allRaised,      \* every outcome so far was a raised exception
    stopAfterRaises, \* only raised exceptions came before invocation firstStop
    events,         \* the logger.warning calls of this send, in order
    cancelled,      \* the task of this send was cancelled at an await
    passed,         \* the wrapped invocations of this send: callee and argument
    sends,          \* concurrent sends on the one instance: each one's locals
    counters,       \* the storage that holds the sends' `retries`
    h_response,     \* raise_for_status: the response it is called with
    h_raised,       \* raise_for_status: what the call did
    r_call,         \* CredentialResolver.resolve: arguments and os.environ
    r_result,       \* CredentialResolver.resolve: what the call did
    dotenv_loaded,  \* CredentialResolver._dotenv_loaded
    dotenv_lock,    \* CredentialResolver._dotenv_lock: the thread holding it
    t_pc,           \* position of each thread inside _ensure_dotenv_loaded
    load_dotenv_calls \* calls of load_dotenv made so far

\* The variables of the single send.
svars == <<request, pc, retries, last_response, outcome, delay, now,
           result, calls, sleeps, allRetryable, firstStop, delays, allRaised,
           stopAfterRaises, events, cancelled, passed>>
\* The variables of the concurrent sends.
cvars == <<sends, counters>>
\* The variables of the error handler, of resolve and of the dotenv loader.
hvars == <<h_response, h_raised>>
rvars == <<r_call, r_result>>
dvars == <<dotenv_loaded, dotenv_lock, t_pc, load_dotenv_calls>>
ovars == <<hvars, rvars, dvars>>
vars == <<self, configured, svars, cvars, ovars>>

None == [kind |-> "none", status |-> 0, ra |-> AbsentHeader, attempt |-> 0]
Response(status, ra, n) ==
    [kind |-> "response", status |-> status, ra |-> ra, attempt |-> n]
Raised(n) == [kind |-> "exception", status |-> 0, ra |-> AbsentHeader, attempt |-> n]
\* The exception raised while deciding on the response of invocation n.
\* asyncio.CancelledError thrown into the coroutine at the await it is
\* suspended in, after n invocations.
CancelledError(n) ==
    [kind |-> "cancelled", status |-> 0, ra |-> AbsentHeader, attempt |-> n]
DecisionError(n) ==
    [kind |-> "decision_error", status |-> 0, ra |-> AbsentHeader, attempt |-> n]

\* ----------------------------------------------------------- constructors
\* The retry_status_codes / retry_5xx_status_codes argument: None or a set.
NoneArg == [isNone |-> TRUE, codes |-> {}]
SetArg(S) == [isNone |-> FALSE, codes |-> S]
StatusCodeArgs == {NoneArg, SetArg({}), SetArg({503}), SetArg({429, 500})}

\* `arg or DEFAULT`: None and the empty frozenset are both falsy.
OrDefault(arg, default) ==
    IF arg.isNone \/ arg.codes = {} THEN default ELSE arg.codes

\* The wrapped_transport argument: the one underlying transport.
WrappedTransport == "wrapped_transport"

IO_init(max_retries, backoff_factor, retry_status_codes) ==
    [class |-> IdempotentOnlyRetry,
     wrapped_transport |-> WrappedTransport,
     max_retries |-> max_retries,
     backoff_factor |-> backoff_factor,
     max_backoff |-> 0,
     retry_status_codes |-> OrDefault(retry_status_codes, IO_DEFAULT_RETRY_STATUS_CODES)]

RL_init(max_retries, backoff_factor, max_backoff, retry_5xx_status_codes) ==
    [class |-> RateLimitAwareRetry,
     wrapped_transport |-> WrappedTransport,
     max_retries |-> max_retries,
     backoff_factor |-> backoff_factor,
     max_backoff |-> max_backoff,
     retry_status_codes |-> OrDefault(retry_5xx_status_codes, RL_DEFAULT_RETRY_5XX_STATUS_CODES)]

\* The instances a constructor call with status-code argument a builds:
\* every backoff factor and cap with the default status codes, one factor
\* and cap with each other status-code argument.
Construct(a) ==
    LET factors == IF a = NoneArg THEN BackoffFactors ELSE {1}
        caps == IF a = NoneArg THEN MaxBackoffs ELSE {MaxCap}
    IN  { IO_init(n, f, a) : n \in (-1)..MaxRetriesBound, f \in factors }
        \cup
        { RL_init(n, f, c, a) :
            n \in (-1)..MaxRetriesBound, f \in factors, c \in caps }

Transports == UNION { Construct(a) : a \in StatusCodeArgs }

\* ------------------------------------------------- decisions and delays
\* Variant: the budget check is off by one (stops one retry early).
IO_should_retry_budget_off_by_one(req, response, current_retries) ==
    IF current_retries + 1 >= self.max_retries THEN FALSE
    ELSE IF req.method \notin IO_IDEMPOTENT_METHODS THEN FALSE
    ELSE response.status \in self.retry_status_codes

\* Variant: the budget check is missing.
IO_should_retry_no_budget_check(req, response, current_retries) ==
    IF req.method \notin IO_IDEMPOTENT_METHODS THEN FALSE
    ELSE response.status \in self.retry_status_codes

\* Variant: the idempotency check is missing.
IO_should_retry_any_method(req, response, current_retries) ==
    IF current_retries >= self.max_retries THEN FALSE
    ELSE response.status \in self.retry_status_codes

\* Variant: 429 is retried like a configured status.
IO_should_retry_also_429(req, response, current_retries) ==
    IF current_retries >= self.max_retries THEN FALSE
    ELSE IF req.method \notin IO_IDEMPOTENT_METHODS THEN FALSE
    ELSE response.status \in (self.retry_status_codes \cup {429})

\* Variant: every error status is retried, configured or not.
IO_should_retry_any_error(req, response, current_retries) ==
    IF current_retries >= self.max_retries THEN FALSE
    ELSE IF req.method \notin IO_IDEMPOTENT_METHODS THEN FALSE
    ELSE response.status >= 400

IO_should_retry(req, response, current_retries) ==
    IF current_retries >= self.max_retries THEN FALSE
    ELSE IF req.method \notin IO_IDEMPOTENT_METHODS THEN FALSE
    ELSE response.status \in self.retry_status_codes

\* Variant: the except branch gives up one failure too late.
IO_except_reraises_late(current_retries) ==
    current_retries > self.max_retries

\* The except branch re-raises: `if retries >= self.max_retries: raise`.
IO_except_reraises(current_retries) ==
    current_retries >= self.max_retries

\* Variant: the except branch retries whatever the method.
RL_except_reraises_any_method(req, current_retries) ==
    current_retries >= self.max_retries

\* Variant: the except branch gives up one failure too late.
RL_except_reraises_late(req, current_retries) ==
    current_retries > self.max_retries \/ req.method \notin RL_IDEMPOTENT_METHODS

\* Variant: the except branch gives up one failure too early.
RL_except_reraises_early(req, current_retries) ==
    current_retries + 1 >= self.max_retries \/ req.method \notin RL_IDEMPOTENT_METHODS

\* The except branch re-raises:
\* `if retries >= self.max_retries or request.method not in self.IDEMPOTENT_METHODS: raise`.
RL_except_reraises(req, current_retries) ==
    current_retries >= self.max_retries \/ req.method \notin RL_IDEMPOTENT_METHODS

\* Variant: the exponent is the retry number itself.
IO_calculate_backoff_delay_exponent_off_by_one(retry_number) ==
    self.backoff_factor * Pow2(retry_number)

IO_calculate_backoff_delay(retry_number) ==
    self.backoff_factor * Pow2(retry_number - 1)

\* Variant: the cap is missing.
RL_calculate_backoff_delay_uncapped(retry_number) ==
    self.backoff_factor * Pow2(retry_number - 1)

RL_calculate_backoff_delay(retry_number) ==
    Min(self.backoff_factor * Pow2(retry_number - 1), self.max_backoff)

NoDelay == -1
\* _parse_retry_after raises: an exception that `except (ValueError,
\* TypeError)` does not catch leaves the method.
ParseRaises == -2

\* Whether parsing reaches datetime.now(UTC): the header is truthy, int()
\* raised ValueError and parsedate_to_datetime succeeded.
RL_reads_clock(response) == response.ra.kind = "date"

\* Variant: the parsed delay is returned without the max_backoff cap.
RL_parse_retry_after_uncapped(response, clock) ==
    LET ra == response.ra IN
    IF ra.kind = "absent" \/ (ra.kind = "text" /\ ra.text = <<>>) THEN NoDelay
    ELSE IF ra.kind = "text" /\ IntParses(ra.text) THEN
        IF IntValue(ra.text) < 0 THEN NoDelay
        ELSE IntValue(ra.text)
    ELSE IF ra.kind = "overflow" THEN ParseRaises
    ELSE IF ra.kind = "date" THEN
        IF ra.date - clock < 0 THEN NoDelay
        ELSE ra.date - clock
    ELSE NoDelay

\* Variant: a date that is exactly now is discarded (`delay <= 0`).
RL_parse_retry_after_zero_date_ignored(response, clock) ==
    LET ra == response.ra IN
    IF ra.kind = "absent" \/ (ra.kind = "text" /\ ra.text = <<>>) THEN NoDelay
    ELSE IF ra.kind = "text" /\ IntParses(ra.text) THEN
        IF IntValue(ra.text) < 0 THEN NoDelay
        ELSE Min(IntValue(ra.text), self.max_backoff)
    ELSE IF ra.kind = "overflow" THEN ParseRaises
    ELSE IF ra.kind = "date" THEN
        IF ra.date - clock <= 0 THEN NoDelay
        ELSE Min(ra.date - clock, self.max_backoff)
    ELSE NoDelay

RL_parse_retry_after(response, clock) ==
    LET ra == response.ra IN
    IF ra.kind = "absent" \/ (ra.kind = "text" /\ ra.text = <<>>) THEN NoDelay
    ELSE IF ra.kind = "text" /\ IntParses(ra.text) THEN
        IF IntValue(ra.text) < 0 THEN NoDelay
        ELSE Min(IntValue(ra.text), self.max_backoff)
    ELSE IF ra.kind = "overflow" THEN ParseRaises
    ELSE IF ra.kind = "date" THEN
        IF ra.date - clock < 0 THEN NoDelay
        ELSE Min(ra.date - clock, self.max_backoff)
    ELSE NoDelay

\* Variant: a 429 is retried only for idempotent methods.
RL_should_retry_with_delay_429_idempotent_only(req, response, current_retries, clock) ==
    IF current_retries >= self.max_retries THEN <<FALSE, 0>>
    ELSE IF response.status = 429 /\ req.method \in RL_IDEMPOTENT_METHODS THEN
        LET d == RL_parse_retry_after(response, clock) IN
        IF d = NoDelay THEN <<TRUE, RL_calculate_backoff_delay(current_retries + 1)>>
        ELSE <<TRUE, d>>
    ELSE IF response.status \in self.retry_status_codes
            /\ req.method \in RL_IDEMPOTENT_METHODS THEN
        <<TRUE, RL_calculate_backoff_delay(current_retries + 1)>>
    ELSE <<FALSE, 0>>

\* Variant: a parsed delay of zero is taken for a missing one (`if not delay`).
RL_should_retry_with_delay_zero_is_falsy(req, response, current_retries, clock) ==
    IF current_retries >= self.max_retries THEN <<FALSE, 0>>
    ELSE IF response.status = 429 THEN
        LET d == RL_parse_retry_after(response, clock) IN
        IF d = NoDelay \/ d = 0
        THEN <<TRUE, RL_calculate_backoff_delay(current_retries + 1)>>
        ELSE <<TRUE, d>>
    ELSE IF response.status \in self.retry_status_codes
            /\ req.method \in RL_IDEMPOTENT_METHODS THEN
        <<TRUE, RL_calculate_backoff_delay(current_retries + 1)>>
    ELSE <<FALSE, 0>>

\* Variant: the budget check lets one retry too many through.
RL_should_retry_with_delay_budget_late(req, response, current_retries, clock) ==
    IF current_retries > self.max_retries THEN <<FALSE, 0>>
    ELSE IF response.status = 429 THEN
        LET d == RL_parse_retry_after(response, clock) IN
        IF d = NoDelay THEN <<TRUE, RL_calculate_backoff_delay(current_retries + 1)>>
        ELSE <<TRUE, d>>
    ELSE IF response.status \in self.retry_status_codes
            /\ req.method \in RL_IDEMPOTENT_METHODS THEN
        <<TRUE, RL_calculate_backoff_delay(current_retries + 1)>>
    ELSE <<FALSE, 0>>

\* Variant: a configured 5xx is retried whatever the method.
RL_should_retry_with_delay_5xx_any_method(req, response, current_retries, clock) ==
    IF current_retries >= self.max_retries THEN <<FALSE, 0>>
    ELSE IF response.status = 429 THEN
        LET d == RL_parse_retry_after(response, clock) IN
        IF d = NoDelay THEN <<TRUE, RL_calculate_backoff_delay(current_retries + 1)>>
        ELSE <<TRUE, d>>
    ELSE IF response.status \in self.retry_status_codes THEN
        <<TRUE, RL_calculate_backoff_delay(current_retries + 1)>>
    ELSE <<FALSE, 0>>

\* Variant: the 5xx branch honours a Retry-After header like the 429 branch.
RL_should_retry_with_delay_5xx_honours_retry_after(req, response, current_retries, clock) ==
    IF current_retries >= self.max_retries THEN <<FALSE, 0>>
    ELSE IF response.status = 429 THEN
        LET d == RL_parse_retry_after(response, clock) IN
        IF d = NoDelay THEN <<TRUE, RL_calculate_backoff_delay(current_retries + 1)>>
        ELSE <<TRUE, d>>
    ELSE IF response.status \in self.retry_status_codes
            /\ req.method \in RL_IDEMPOTENT_METHODS THEN
        LET d == RL_parse_retry_after(response, clock) IN
        IF d \in {NoDelay, ParseRaises}
        THEN <<TRUE, RL_calculate_backoff_delay(current_retries + 1)>>
        ELSE <<TRUE, d>>
    ELSE <<FALSE, 0>>

\* (should_retry, delay)
RL_should_retry_with_delay(req, response, current_retries, clock) ==
    IF current_retries >= self.max_retries THEN <<FALSE, 0>>
    ELSE IF response.status = 429 THEN
        LET d == RL_parse_retry_after(response, clock) IN
        IF d = NoDelay THEN <<TRUE, RL_calculate_backoff_delay(current_retries + 1)>>
        ELSE <<TRUE, d>>
    ELSE IF response.status \in self.retry_status_codes
            /\ req.method \in RL_IDEMPOTENT_METHODS THEN
        <<TRUE, RL_calculate_backoff_delay(current_retries + 1)>>
    ELSE <<FALSE, 0>>

\* Where the delay of a retried response comes from: the Retry-After header
\* on the 429 branch when it parses, else the exponential backoff.
RL_delay_source(response, clock) ==
    IF response.status = 429
       /\ RL_parse_retry_after(response, clock) \notin {NoDelay, ParseRaises}
    THEN "retry_after" ELSE "backoff"

\* _should_retry_with_delay raises: the 429 branch is reached and
\* _parse_retry_after raises.
RL_decision_raises(response, current_retries, clock) ==
    /\ current_retries < self.max_retries
    /\ response.status = 429
    /\ RL_parse_retry_after(response, clock) = ParseRaises

\* The clock is read inside _should_retry_with_delay only on the 429 branch.
RL_decision_reads_clock(response, current_retries) ==
    /\ current_retries < self.max_retries
    /\ response.status = 429
    /\ RL_reads_clock(response)

\* ------------------------------------------- the claims' notion of retryable
\* A response that is retryable on status grounds, budget aside.
RetryableResponse(t, req, response) ==
    IF t.class = IdempotentOnlyRetry
    THEN req.method \in {"HEAD", "GET", "OPTIONS", "TRACE"}
         /\ response.status \in t.retry_status_codes
    ELSE \/ response.status = 429
         \/ /\ req.method \in {"HEAD", "GET", "PUT", "DELETE", "OPTIONS", "TRACE"}
            /\ response.status \in t.retry_status_codes

Observe(o) ==
    /\ allRetryable' = (allRetryable /\ o.kind = "response"
                        /\ RetryableResponse(self, request, o))
    /\ firstStop' = IF firstStop = 0 /\ o.kind = "response"
                       /\ ~RetryableResponse(self, request, o)
                    THEN o.attempt ELSE firstStop
    /\ allRaised' = (allRaised /\ o.kind = "exception")
    /\ stopAfterRaises' = IF firstStop = 0 /\ o.kind = "response"
                             /\ ~RetryableResponse(self, request, o)
                          THEN allRaised ELSE stopAfterRaises

\* Variant: the attempt number is logged before `retries` is incremented.
Logged_before_increment(attempt, d) == [attempt |-> attempt - 1, delay |-> d]

\* A logger.warning call: "retrying in {delay}s (attempt {retries}/...)".
Logged(attempt, d) == [attempt |-> attempt, delay |-> d]

\* self._wrapped_transport.handle_async_request(request): the transport
\* invoked and the request value handed to it.
WrappedCall(transport, req) == [transport |-> transport, request |-> req]

\* A slept delay: exponential backoff, or taken from a Retry-After header.
Slept(d, src) == [d |-> d, src |-> src]

\* ---------------------------------------------------------------- actions
\* The locals of handle_async_request on entry.
InitLocals ==
    /\ pc = "loop"
    /\ retries = 0
    /\ last_response = None
    /\ outcome = None
    /\ delay = 0
    /\ now = 0
    /\ result = None
    /\ calls = 0
    /\ sleeps = 0
    /\ allRetryable = TRUE
    /\ firstStop = 0
    /\ delays = <<>>
    /\ allRaised = TRUE
    /\ stopAfterRaises = FALSE
    /\ events = <<>>
    /\ cancelled = FALSE
    /\ passed = <<>>

\* Concurrent sends: the tasks that call handle_async_request on one
\* instance, each with locals of its own.
Sends == {1, 2}
NewSend(method) ==
    [request |-> [method |-> method], pc |-> "idle", last_response |-> None,
     outcome |-> None, result |-> None, calls |-> 0, sleeps |-> 0,
     delays |-> <<>>, hist |-> <<>>]
NoConcurrentSends ==
    /\ sends = [i \in Sends |-> NewSend("GET")]
    /\ counters = [i \in Sends |-> 0]

\* The other components before any call of theirs.
NotCalled == [kind |-> "not_called"]
NoThread == "free"
Threads == {"t1", "t2", "t3"}
HandlerIdle == h_response = NotCalled /\ h_raised = NotCalled
ResolveIdle == r_call = NotCalled /\ r_result = NotCalled
DotenvIdle ==
    /\ dotenv_loaded = FALSE
    /\ dotenv_lock = NoThread
    /\ t_pc = [t \in Threads |-> "idle"]
    /\ load_dotenv_calls = 0

InitSend ==
    /\ request \in [method : Methods]
    /\ InitLocals
    /\ NoConcurrentSends
    /\ HandlerIdle /\ ResolveIdle /\ DotenvIdle

Init ==
    /\ configured \in StatusCodeArgs
    /\ self \in Construct(configured)
    /\ InitSend

\* Variant: the sleep is started but not awaited, so the loop goes on to
\* the next invocation while the delay is still running.
Invoke_sleep_not_awaited ==
    /\ pc \in {"loop", "sleeping"}
    /\ retries <= self.max_retries
    /\ pc' = "awaiting"
    /\ calls' = calls + 1
    /\ passed' = Append(passed, WrappedCall(self.wrapped_transport, request))
    /\ UNCHANGED <<self, configured, ovars, cvars, cancelled, events, request, retries, last_response, outcome, delay, now,
                   result, sleeps, allRetryable, firstStop, delays, allRaised,
                   stopAfterRaises>>

\* Variant: the loop tests its condition after the body (the body is entered
\* at least once).
Invoke_body_entered_first ==
    /\ pc = "loop"
    /\ retries <= self.max_retries \/ calls = 0
    /\ pc' = "awaiting"
    /\ calls' = calls + 1
    /\ passed' = Append(passed, WrappedCall(self.wrapped_transport, request))
    /\ UNCHANGED <<self, configured, ovars, cvars, cancelled, events, request, retries, last_response, outcome, delay, now,
                   result, sleeps, allRetryable, firstStop, delays, allRaised,
                   stopAfterRaises>>

\* Variant: a retry sends a rebuilt request that carries the retry number.
Invoke_rebuilds_request ==
    /\ pc = "loop"
    /\ retries <= self.max_retries
    /\ pc' = "awaiting"
    /\ calls' = calls + 1
    /\ passed' = Append(passed,
                        WrappedCall(self.wrapped_transport,
                                    IF retries = 0 THEN request
                                    ELSE [method |-> request.method,
                                          retry_count |-> retries]))
    /\ UNCHANGED <<self, configured, ovars, cvars, cancelled, events, request, retries, last_response, outcome, delay, now,
                   result, sleeps, allRetryable, firstStop, delays, allRaised,
                   stopAfterRaises>>

\* while retries <= self.max_retries: ... await wrapped.handle_async_request
Invoke ==
    /\ pc = "loop"
    /\ retries <= self.max_retries
    /\ pc' = "awaiting"
    /\ calls' = calls + 1
    /\ passed' = Append(passed, WrappedCall(self.wrapped_transport, request))
    /\ UNCHANGED <<self, configured, ovars, cvars, cancelled, events, request, retries, last_response, outcome, delay, now,
                   result, sleeps, allRetryable, firstStop, delays, allRaised,
                   stopAfterRaises>>

\* The response branch of the loop body, IdempotentOnlyRetry.
IO_OnResponse(status, ra) ==
    LET response == Response(status, ra, calls) IN
    /\ pc = "awaiting"
    /\ self.class = IdempotentOnlyRetry
    /\ outcome' = response
    /\ Observe(response)
    /\ IF IO_should_retry(request, response, retries)
       THEN /\ last_response' = response
            /\ retries' = retries + 1
            /\ delay' = IO_calculate_backoff_delay(retries + 1)
            /\ delays' = Append(delays, Slept(delay', "backoff"))
            /\ events' = Append(events, Logged(retries', delay'))
            /\ sleeps' = sleeps + 1
            /\ pc' = "sleeping"
            /\ UNCHANGED result
       ELSE /\ result' = response
            /\ pc' = "done"
            /\ UNCHANGED <<last_response, retries, delay, sleeps, delays, events>>
    /\ UNCHANGED <<self, configured, ovars, cvars, passed, cancelled, request, now, calls>>

\* The except branch of the loop body, IdempotentOnlyRetry.
IO_OnException ==
    LET e == Raised(calls) IN
    /\ pc = "awaiting"
    /\ self.class = IdempotentOnlyRetry
    /\ outcome' = e
    /\ Observe(e)
    /\ IF IO_except_reraises(retries)
       THEN /\ result' = e
            /\ pc' = "done"
            /\ UNCHANGED <<retries, delay, sleeps, delays, events>>
       ELSE /\ retries' = retries + 1
            /\ delay' = IO_calculate_backoff_delay(retries + 1)
            /\ delays' = Append(delays, Slept(delay', "backoff"))
            /\ events' = Append(events, Logged(retries', delay'))
            /\ sleeps' = sleeps + 1
            /\ pc' = "sleeping"
            /\ UNCHANGED result
    /\ UNCHANGED <<self, configured, ovars, cvars, passed, cancelled, request, last_response, now, calls>>

\* The response branch of the loop body, RateLimitAwareRetry.  The decision
\* is taken inside the try block: when it raises, the except branch runs
\* with that exception.
RL_OnResponse(status, ra, clock) ==
    LET response == Response(status, ra, calls)
        decision == RL_should_retry_with_delay(request, response, retries, clock)
    IN
    /\ pc = "awaiting"
    /\ self.class = RateLimitAwareRetry
    /\ outcome' = response
    /\ Observe(response)
    /\ now' = IF RL_decision_reads_clock(response, retries) THEN clock ELSE now
    /\ IF RL_decision_raises(response, retries, clock)
       THEN IF RL_except_reraises(request, retries)
            THEN /\ result' = DecisionError(calls)
                 /\ pc' = "done"
                 /\ UNCHANGED <<last_response, retries, delay, sleeps, delays, events>>
            ELSE /\ retries' = retries + 1
                 /\ delay' = RL_calculate_backoff_delay(retries + 1)
                 /\ delays' = Append(delays, Slept(delay', "backoff"))
                 /\ events' = Append(events, Logged(retries', delay'))
                 /\ sleeps' = sleeps + 1
                 /\ pc' = "sleeping"
                 /\ UNCHANGED <<last_response, result>>
       ELSE IF decision[1]
       THEN /\ last_response' = response
            /\ retries' = retries + 1
            /\ delay' = decision[2]
            /\ delays' = Append(delays, Slept(delay', RL_delay_source(response, clock)))
            /\ events' = Append(events, Logged(retries', delay'))
            /\ sleeps' = sleeps + 1
            /\ pc' = "sleeping"
            /\ UNCHANGED result
       ELSE /\ result' = response
            /\ pc' = "done"
            /\ UNCHANGED <<last_response, retries, delay, sleeps, delays, events>>
    /\ UNCHANGED <<self, configured, ovars, cvars, passed, cancelled, request, calls>>

\* Variant: the backoff sequence restarts when the failure class changes
\* from a response to a raised error.
RL_OnException_backoff_restarts ==
    LET e == Raised(calls) IN
    /\ pc = "awaiting"
    /\ self.class = RateLimitAwareRetry
    /\ outcome' = e
    /\ Observe(e)
    /\ IF RL_except_reraises(request, retries)
       THEN /\ result' = e
            /\ pc' = "done"
            /\ UNCHANGED <<retries, delay, sleeps, delays, events>>
       ELSE /\ retries' = retries + 1
            /\ delay' = RL_calculate_backoff_delay(
                            IF outcome.kind = "response" THEN 1 ELSE retries + 1)
            /\ delays' = Append(delays, Slept(delay', "backoff"))
            /\ events' = Append(events, Logged(retries', delay'))
            /\ sleeps' = sleeps + 1
            /\ pc' = "sleeping"
            /\ UNCHANGED result
    /\ UNCHANGED <<self, configured, ovars, cvars, passed, cancelled, request, last_response, now, calls>>

\* The except branch of the loop body, RateLimitAwareRetry.
RL_OnException ==
    LET e == Raised(calls) IN
    /\ pc = "awaiting"
    /\ self.class = RateLimitAwareRetry
    /\ outcome' = e
    /\ Observe(e)
    /\ IF RL_except_reraises(request, retries)
       THEN /\ result' = e
            /\ pc' = "done"
            /\ UNCHANGED <<retries, delay, sleeps, delays, events>>
       ELSE /\ retries' = retries + 1
            /\ delay' = RL_calculate_backoff_delay(retries + 1)
            /\ delays' = Append(delays, Slept(delay', "backoff"))
            /\ events' = Append(events, Logged(retries', delay'))
            /\ sleeps' = sleeps + 1
            /\ pc' = "sleeping"
            /\ UNCHANGED result
    /\ UNCHANGED <<self, configured, ovars, cvars, passed, cancelled, request, last_response, now, calls>>

\* Variant: the awaited sleep never returns.
SleepElapsed_never_returns ==
    /\ pc = "sleeping"
    /\ pc' = "sleeping"
    /\ UNCHANGED <<self, configured, ovars, cvars, passed, cancelled, events, request, retries, last_response, outcome, delay, now,
                   result, calls, sleeps, allRetryable, firstStop, delays,
                   allRaised, stopAfterRaises>>

\* asyncio.sleep(delay) returns; control goes back to the loop condition.
SleepElapsed ==
    /\ pc = "sleeping"
    /\ pc' = "loop"
    /\ UNCHANGED <<self, configured, ovars, cvars, passed, cancelled, events, request, retries, last_response, outcome, delay, now,
                   result, calls, sleeps, allRetryable, firstStop, delays,
                   allRaised, stopAfterRaises>>

\* The loop condition is false: return last_response if there is one, else
\* invoke the wrapped transport once more.
PostLoop ==
    /\ pc = "loop"
    /\ ~(retries <= self.max_retries)
    /\ IF last_response # None
       THEN /\ result' = last_response
            /\ pc' = "done"
            /\ UNCHANGED <<calls, passed>>
       ELSE /\ calls' = calls + 1
            /\ passed' = Append(passed, WrappedCall(self.wrapped_transport, request))
            /\ pc' = "fallback"
            /\ UNCHANGED result
    /\ UNCHANGED <<self, configured, ovars, cvars, cancelled, events, request, retries, last_response, outcome, delay, now,
                   sleeps, allRetryable, firstStop, delays, allRaised,
                   stopAfterRaises>>

\* The post-loop invocation completes: its response is returned, its
\* exception propagates.
FallbackCompletes(o) ==
    /\ pc = "fallback"
    /\ outcome' = o
    /\ Observe(o)
    /\ result' = o
    /\ pc' = "done"
    /\ UNCHANGED <<self, configured, ovars, cvars, passed, cancelled, events, request, retries, last_response, delay, now, calls, sleeps,
                   delays>>

Next ==
    \/ Invoke
    \/ \E s \in Statuses : \E ra \in RetryAfterFor(s) : IO_OnResponse(s, ra)
    \/ IO_OnException
    \/ \E s \in Statuses : \E ra \in RetryAfterFor(s), clock \in ClockReadings :
           RL_OnResponse(s, ra, clock)
    \/ RL_OnException
    \/ SleepElapsed
    \/ PostLoop
    \/ \E s \in Statuses : \E ra \in RetryAfterFor(s) :
           FallbackCompletes(Response(s, ra, calls))
    \/ FallbackCompletes(Raised(calls))

Spec == Init /\ [][Next]_vars

\* Sends through an IdempotentOnlyRetry built with max_retries = DeepRetries
\* (or -1), long enough for the whole default backoff sequence.
DeepConstruct(a) ==
    { IO_init(n, f, a) : n \in {-1, DeepRetries}, f \in BackoffFactors }

DeepTransports == UNION { DeepConstruct(a) : a \in StatusCodeArgs }

InitDeep ==
    /\ configured \in StatusCodeArgs
    /\ self \in DeepConstruct(configured)
    /\ InitSend

NextDeep ==
    \/ Invoke
    \/ \E s \in Statuses : \E ra \in RetryAfterFor(s) : IO_OnResponse(s, ra)
    \/ IO_OnException
    \/ SleepElapsed
    \/ PostLoop
    \/ \E s \in Statuses : \E ra \in RetryAfterFor(s) :
           FallbackCompletes(Response(s, ra, calls))
    \/ FallbackCompletes(Raised(calls))

SpecDeep == InitDeep /\ [][NextDeep]_vars

\* A send whose wrapped invocations all complete and whose sleeps all elapse:
\* every step of the send that can be taken is eventually taken.
LiveTransports ==
    { IO_init(n, 1, NoneArg) : n \in (-1)..MaxRetriesBound }
    \cup { RL_init(n, 1, MaxCap, NoneArg) : n \in (-1)..MaxRetriesBound }

InitLive ==
    /\ configured = NoneArg
    /\ self \in LiveTransports
    /\ InitSend

SpecLive == InitLive /\ [][Next]_vars /\ WF_vars(Next)

\* Variant: the handler is `except BaseException`.
CaughtByExceptException_base(e) == TRUE
\* `except Exception as e`: asyncio.CancelledError derives from BaseException
\* only, every other error of the model from Exception.
CaughtByExceptException(e) == e.kind \in {"exception", "decision_error"}

\* The await the send is suspended in is inside the try block: the wrapped
\* call, and the sleep of the response branch (the sleep of the except branch
\* is inside the handler, the post-loop call after the loop).
AwaitInsideTry ==
    \/ pc = "awaiting"
    \/ pc = "sleeping" /\ outcome.kind = "response" /\ last_response = outcome

\* The task is cancelled while suspended: CancelledError is raised at the
\* await.  Inside the try block a matching handler runs the except branch.
Cancel ==
    LET e == CancelledError(calls)
        reraises == IF self.class = IdempotentOnlyRetry
                    THEN IO_except_reraises(retries)
                    ELSE RL_except_reraises(request, retries)
        backoff == IF self.class = IdempotentOnlyRetry
                   THEN IO_calculate_backoff_delay(retries + 1)
                   ELSE RL_calculate_backoff_delay(retries + 1)
    IN
    /\ pc \in {"awaiting", "sleeping", "fallback"}
    /\ ~cancelled
    /\ cancelled' = TRUE
    /\ IF AwaitInsideTry /\ CaughtByExceptException(e) /\ ~reraises
       THEN /\ retries' = retries + 1
            /\ delay' = backoff
            /\ delays' = Append(delays, Slept(delay', "backoff"))
            /\ events' = Append(events, Logged(retries', delay'))
            /\ sleeps' = sleeps + 1
            /\ pc' = "sleeping"
            /\ UNCHANGED result
       ELSE /\ result' = e
            /\ pc' = "done"
            /\ UNCHANGED <<retries, delay, sleeps, delays, events>>
    /\ UNCHANGED <<self, configured, ovars, cvars, passed, request, last_response, outcome, now,
                   calls, allRetryable, firstStop, allRaised, stopAfterRaises>>

NextCancel ==
    \/ Next
    \/ Cancel

SpecCancel == InitLive /\ [][NextCancel]_vars

\* ------------------------------------------------ concurrent sends
\* Several tasks inside handle_async_request of one instance.  A task gives
\* up control only at an await: the wrapped transport's call and the sleep.
\* `retries` and `last_response` are locals of the coroutine; `self` is only
\* read.

\* Where send i keeps its `retries`: in its own frame.
CounterSlot_shared(i) == 1
CounterSlot(i) == i

ConcMethods == {"GET", "POST"}
ConcTransports ==
    { IO_init(n, 1, NoneArg) : n \in {-1, ConcRetries} }
    \cup { RL_init(n, 1, MaxCap, NoneArg) : n \in {-1, ConcRetries} }
ConcResponses == {<<200, AbsentHeader>>, <<503, AbsentHeader>>,
                  <<429, TextHeader(<<"2">>)>>}

\* The except branch of either class with `retries` = r.
ExceptReraises(req, r) ==
    IF self.class = IdempotentOnlyRetry
    THEN IO_except_reraises(r) ELSE RL_except_reraises(req, r)
BackoffDelay(retry_number) ==
    IF self.class = IdempotentOnlyRetry
    THEN IO_calculate_backoff_delay(retry_number)
    ELSE RL_calculate_backoff_delay(retry_number)

\* One pass through the loop body after the wrapped call ended with o, in
\* the frame l with `retries` = r: the frame and `retries` at the next await
\* or at the return.  No header of ConcResponses is a date, so the clock is
\* not read.
BodyStep(l, r, o) ==
    LET retry(d, src, last) ==
            <<[l EXCEPT !.outcome = o, !.last_response = last,
                        !.sleeps = @ + 1, !.delays = Append(@, Slept(d, src)),
                        !.pc = "sleeping"], r + 1>>
        stop(res) == <<[l EXCEPT !.outcome = o, !.result = res, !.pc = "done"], r>>
        onError(e) == IF ExceptReraises(l.request, r)
                      THEN stop(e)
                      ELSE retry(BackoffDelay(r + 1), "backoff", l.last_response)
    IN  IF o.kind = "exception" THEN onError(o)
        ELSE IF self.class = IdempotentOnlyRetry
        THEN IF IO_should_retry(l.request, o, r)
             THEN retry(IO_calculate_backoff_delay(r + 1), "backoff", o)
             ELSE stop(o)
        ELSE IF RL_decision_raises(o, r, 0) THEN onError(DecisionError(l.calls))
        ELSE LET decision == RL_should_retry_with_delay(l.request, o, r, 0)
             IN  IF decision[1]
                 THEN retry(decision[2], RL_delay_source(o, 0), o)
                 ELSE stop(o)

\* Variant: the delay is a blocking time.sleep, which holds the event loop.
SleepYieldsToLoop_blocking == FALSE
\* `await asyncio.sleep(delay)` suspends the coroutine and hands control back
\* to the event loop.
SleepYieldsToLoop == TRUE

\* Send i can be resumed: no other send holds the event loop in its sleep.
CanRun(i) ==
    SleepYieldsToLoop \/ \A j \in Sends \ {i} : sends[j].pc # "sleeping"

InitConc ==
    /\ self \in ConcTransports
    /\ configured = NoneArg
    /\ HandlerIdle /\ ResolveIdle /\ DotenvIdle
    /\ request = [method |-> "GET"]
    /\ InitLocals
    /\ sends \in { [i \in Sends |-> NewSend(m[i])] : m \in [Sends -> ConcMethods] }
    /\ counters = [i \in Sends |-> 0]

\* retries = 0; last_response = None
C_Enter(i) ==
    /\ CanRun(i)
    /\ sends[i].pc = "idle"
    /\ sends' = [sends EXCEPT ![i].pc = "loop", ![i].last_response = None]
    /\ counters' = [counters EXCEPT ![CounterSlot(i)] = 0]
    /\ UNCHANGED <<self, configured, ovars, svars>>

C_Invoke(i) ==
    /\ CanRun(i)
    /\ sends[i].pc = "loop"
    /\ counters[CounterSlot(i)] <= self.max_retries
    /\ sends' = [sends EXCEPT ![i].pc = "awaiting", ![i].calls = @ + 1]
    /\ UNCHANGED <<self, configured, ovars, svars, counters>>

\* Variant: a retry is charged to the instance, which lowers max_retries.
C_OnOutcome_budget_on_instance(i, o) ==
    LET step == BodyStep(sends[i], counters[CounterSlot(i)], o) IN
    /\ CanRun(i)
    /\ sends[i].pc = "awaiting"
    /\ sends' = [sends EXCEPT ![i] = [step[1] EXCEPT !.hist = Append(@, o)]]
    /\ counters' = [counters EXCEPT ![CounterSlot(i)] = step[2]]
    /\ self' = [self EXCEPT !.max_retries = @ - (step[2] - counters[CounterSlot(i)])]
    /\ UNCHANGED <<configured, ovars, svars>>

\* The wrapped call of send i ends with a response or raises.
C_OnOutcome(i, o) ==
    LET step == BodyStep(sends[i], counters[CounterSlot(i)], o) IN
    /\ CanRun(i)
    /\ sends[i].pc = "awaiting"
    /\ sends' = [sends EXCEPT ![i] = [step[1] EXCEPT !.hist = Append(@, o)]]
    /\ counters' = [counters EXCEPT ![CounterSlot(i)] = step[2]]
    /\ UNCHANGED <<self, configured, ovars, svars>>

C_SleepElapsed(i) ==
    /\ CanRun(i)
    /\ sends[i].pc = "sleeping"
    /\ sends' = [sends EXCEPT ![i].pc = "loop"]
    /\ UNCHANGED <<self, configured, ovars, svars, counters>>

C_PostLoop(i) ==
    /\ CanRun(i)
    /\ sends[i].pc = "loop"
    /\ ~(counters[CounterSlot(i)] <= self.max_retries)
    /\ sends' = IF sends[i].last_response # None
                THEN [sends EXCEPT ![i].result = sends[i].last_response,
                                   ![i].pc = "done"]
                ELSE [sends EXCEPT ![i].calls = @ + 1, ![i].pc = "fallback"]
    /\ UNCHANGED <<self, configured, ovars, svars, counters>>

C_FallbackCompletes(i, o) ==
    /\ CanRun(i)
    /\ sends[i].pc = "fallback"
    /\ sends' = [sends EXCEPT ![i].outcome = o, ![i].result = o,
                              ![i].pc = "done", ![i].hist = Append(@, o)]
    /\ UNCHANGED <<self, configured, ovars, svars, counters>>

\* The steps of send i.
SendStep(i) ==
    \/ C_Enter(i)
    \/ C_Invoke(i)
    \/ \E r \in ConcResponses :
           C_OnOutcome(i, Response(r[1], r[2], sends[i].calls))
    \/ C_OnOutcome(i, Raised(sends[i].calls))
    \/ C_SleepElapsed(i)
    \/ C_PostLoop(i)
    \/ \E r \in ConcResponses :
           C_FallbackCompletes(i, Response(r[1], r[2], sends[i].calls))
    \/ C_FallbackCompletes(i, Raised(sends[i].calls))

NextConc == \E i \in Sends : SendStep(i)

SpecConc == InitConc /\ [][NextConc]_vars

\* ------------------------------------- CredentialResolver: dotenv loading
\* No send is under way: the retry transport is only constructed.
NoSend ==
    /\ configured = NoneArg
    /\ self = IO_init(0, 1, NoneArg)
    /\ request = [method |-> "GET"]
    /\ InitLocals
    /\ NoConcurrentSends

\* What load_dotenv can do: return, or raise an Exception (unreadable file,
\* decoding error).
LoadDotenvOutcomes == {"returns", "raises"}

\* __init__: with load_dotenv=True the constructor has already gone through
\* _ensure_dotenv_loaded, alone, before any other thread has the resolver.
InitDotenv ==
    /\ NoSend
    /\ HandlerIdle /\ ResolveIdle
    /\ \E load_dotenv_enabled \in BOOLEAN :
           /\ dotenv_loaded = load_dotenv_enabled
           /\ load_dotenv_calls = (IF load_dotenv_enabled THEN 1 ELSE 0)
    /\ dotenv_lock = NoThread
    /\ t_pc = [t \in Threads |-> "idle"]

\* A thread calls _ensure_dotenv_loaded (again).
D_Call(t) ==
    /\ t_pc[t] \in {"idle", "returned"}
    /\ t_pc' = [t_pc EXCEPT ![t] = "check"]
    /\ UNCHANGED <<self, configured, svars, cvars, hvars, rvars,
                   dotenv_loaded, dotenv_lock, load_dotenv_calls>>

\* if self._dotenv_loaded: return
D_FirstCheck(t) ==
    /\ t_pc[t] = "check"
    /\ t_pc' = [t_pc EXCEPT ![t] = IF dotenv_loaded THEN "returned" ELSE "acquire"]
    /\ UNCHANGED <<self, configured, svars, cvars, hvars, rvars,
                   dotenv_loaded, dotenv_lock, load_dotenv_calls>>

\* with self._dotenv_lock: (entry)
D_Acquire(t) ==
    /\ t_pc[t] = "acquire"
    /\ dotenv_lock = NoThread
    /\ dotenv_lock' = t
    /\ t_pc' = [t_pc EXCEPT ![t] = "locked_check"]
    /\ UNCHANGED <<self, configured, svars, cvars, hvars, rvars,
                   dotenv_loaded, load_dotenv_calls>>

\* Variant: no second check under the lock.
D_SecondCheck_missing(t) ==
    /\ t_pc[t] = "locked_check"
    /\ t_pc' = [t_pc EXCEPT ![t] = "load"]
    /\ UNCHANGED <<self, configured, svars, cvars, hvars, rvars,
                   dotenv_loaded, dotenv_lock, load_dotenv_calls>>

\* if self._dotenv_loaded: return  (under the lock; the return leaves the
\* with block and releases the lock)
D_SecondCheck(t) ==
    /\ t_pc[t] = "locked_check"
    /\ IF dotenv_loaded
       THEN /\ t_pc' = [t_pc EXCEPT ![t] = "returned"]
            /\ dotenv_lock' = NoThread
       ELSE /\ t_pc' = [t_pc EXCEPT ![t] = "load"]
            /\ UNCHANGED dotenv_lock
    /\ UNCHANGED <<self, configured, svars, cvars, hvars, rvars,
                   dotenv_loaded, load_dotenv_calls>>

\* try: load_dotenv(dotenv_path=self._dotenv_path) ... except Exception
D_LoadDotenv(t, o) ==
    /\ t_pc[t] = "load"
    /\ load_dotenv_calls' = load_dotenv_calls + 1
    /\ t_pc' = [t_pc EXCEPT ![t] = IF o = "returns" THEN "loaded" ELSE "handler"]
    /\ UNCHANGED <<self, configured, svars, cvars, hvars, rvars,
                   dotenv_loaded, dotenv_lock>>

\* self._dotenv_loaded = True, in the try block or in the handler.
D_MarkLoaded(t) ==
    /\ t_pc[t] \in {"loaded", "handler"}
    /\ dotenv_loaded' = TRUE
    /\ t_pc' = [t_pc EXCEPT ![t] = "release"]
    /\ UNCHANGED <<self, configured, svars, cvars, hvars, rvars,
                   dotenv_lock, load_dotenv_calls>>

\* The with block ends; the method returns.
D_Release(t) ==
    /\ t_pc[t] = "release"
    /\ dotenv_lock' = NoThread
    /\ t_pc' = [t_pc EXCEPT ![t] = "returned"]
    /\ UNCHANGED <<self, configured, svars, cvars, hvars, rvars,
                   dotenv_loaded, load_dotenv_calls>>

NextDotenv ==
    \E t \in Threads :
        \/ D_Call(t)
        \/ D_FirstCheck(t)
        \/ D_Acquire(t)
        \/ D_SecondCheck(t)
        \/ \E o \in LoadDotenvOutcomes : D_LoadDotenv(t, o)
        \/ D_MarkLoaded(t)
        \/ D_Release(t)

SpecDotenv == InitDotenv /\ [][NextDotenv]_vars

\* ------------------------------------------------- errors: raise_for_status
\* The body of a response, as response.json() and the code after it see
\* it: not JSON at all, or a JSON value of some type.  names_field: a
\* standard RFC 7807 field name is a key of the object, an element of the
\* array, a substring of the string.  title: the "title" member of an
\* object, absent, a string or a (non-zero) number.
Body(json, names_field, title) ==
    [json |-> json, names_field |-> names_field, title |-> title]
Bodies ==
    {Body("invalid", FALSE, "absent")}
    \cup {Body(j, FALSE, "absent") : j \in {"null", "number"}}
    \cup {Body(j, n, "absent") : j \in {"string", "array"}, n \in BOOLEAN}
    \cup {Body("object", FALSE, "absent")}
    \cup {Body("object", TRUE, t) : t \in {"absent", "string", "number"}}

HStatuses == 100..600
HResponses ==
    [status_code : HStatuses, problem_content_type : BOOLEAN, body : Bodies]

\* httpx.Response.is_success
is_success(response) == response.status_code >= 200 /\ response.status_code <= 299

\* ProblemDetail.from_response: "none", a ProblemDetail, or the exception
\* that leaves it.  `field in data` needs a container; data.get needs a dict.
from_response(response) ==
    LET data == response.body
        extract == IF data.json # "object" THEN "AttributeError"
                   ELSE "problem_detail"
    IN  IF data.json = "invalid" THEN "none"
        ELSE IF response.problem_content_type THEN extract
        ELSE IF data.json \in {"null", "number"} THEN "TypeError"
        ELSE IF ~data.names_field THEN "none"
        ELSE extract

\* ProblemDetail.to_exception_message: "\n".join(lines) needs strings.
to_exception_message(response) ==
    IF response.body.title = "number" THEN "TypeError" ELSE "message"

exception_map ==
    [status \in {400, 401, 403, 404, 409, 422, 429} |->
        CASE status = 400 -> "BadRequestError"
          [] status = 401 -> "UnauthorizedError"
          [] status = 403 -> "ForbiddenError"
          [] status = 404 -> "NotFoundError"
          [] status = 409 -> "ConflictError"
          [] status = 422 -> "ValidationError"
          [] status = 429 -> "RateLimitError"]

Returned == [kind |-> "returned"]
RaisedError(class, status_code) ==
    [kind |-> "raised", class |-> class, status_code |-> status_code]
\* An exception that is not built by raise_for_status carries no status.
NoStatus == -1

\* Determine exception class.
exc_class(status_code) ==
    IF status_code \in DOMAIN exception_map THEN exception_map[status_code]
    ELSE IF 400 <= status_code /\ status_code < 500 THEN "ClientError"
    ELSE IF 500 <= status_code /\ status_code < 600 THEN "ServerError"
    ELSE "APIError"

raise_for_status(response) ==
    LET problem_detail == from_response(response) IN
    IF is_success(response) THEN Returned
    ELSE IF problem_detail \in {"TypeError", "AttributeError"}
    THEN RaisedError(problem_detail, NoStatus)
    ELSE IF problem_detail = "problem_detail"
            /\ to_exception_message(response) = "TypeError"
    THEN RaisedError("TypeError", NoStatus)
    ELSE RaisedError(exc_class(response.status_code), response.status_code)

InitHandler ==
    /\ NoSend
    /\ ResolveIdle /\ DotenvIdle
    /\ h_response \in HResponses
    /\ h_raised = NotCalled

H_Call ==
    /\ h_raised = NotCalled
    /\ h_raised' = raise_for_status(h_response)
    /\ UNCHANGED <<self, configured, svars, cvars, rvars, dvars, h_response>>

NextHandler == H_Call

SpecHandler == InitHandler /\ [][NextHandler]_vars

\* ------------------------------------------- CredentialResolver.resolve
\* A `str | None` argument.
PyNone == [isNone |-> TRUE, str |-> ""]
Str(x) == [isNone |-> FALSE, str |-> x]
\* Python truthiness of a `str | None`.
Truthy(v) == ~v.isNone /\ v.str # ""

\* os.environ: each name unset (PyNone) or set to a string, the empty one
\* included.  The empty name cannot be an environment variable.
EnvNames == {"API_KEY", "OTHER"}
Environs == [EnvNames -> {PyNone, Str(""), Str("from-env")}]
InEnviron(environ, name) == name \in EnvNames /\ ~environ[name].isNone

ResolveCalls ==
    [value : {PyNone, Str(""), Str("explicit")},
     env_var_name : {PyNone, Str("")} \cup {Str(n) : n \in EnvNames},
     default : {PyNone, Str(""), Str("fallback")},
     required : BOOLEAN,
     mask_in_logs : BOOLEAN,
     environ : Environs]

ReturnedValue(v) == [kind |-> "returned", value |-> v, env_var_name |-> PyNone]
CredentialNotFoundError(env_var_name) ==
    [kind |-> "raised", value |-> PyNone, env_var_name |-> env_var_name]

\* Variant: the explicit value is tested for truthiness.
resolve_value_truthy(c) ==
    LET resolved ==
            IF Truthy(c.value) THEN c.value
            ELSE IF Truthy(c.env_var_name) /\ InEnviron(c.environ, c.env_var_name.str)
            THEN c.environ[c.env_var_name.str]
            ELSE IF ~c.default.isNone THEN c.default
            ELSE PyNone
    IN  IF c.required /\ resolved.isNone
        THEN CredentialNotFoundError(c.env_var_name)
        ELSE ReturnedValue(resolved)

\* CredentialResolver.resolve; the log calls do not touch the result.
resolve(c) ==
    LET resolved ==
            IF ~c.value.isNone THEN c.value
            ELSE IF Truthy(c.env_var_name) /\ InEnviron(c.environ, c.env_var_name.str)
            THEN c.environ[c.env_var_name.str]
            ELSE IF ~c.default.isNone THEN c.default
            ELSE PyNone
    IN  IF c.required /\ resolved.isNone
        THEN CredentialNotFoundError(c.env_var_name)
        ELSE ReturnedValue(resolved)

InitResolve ==
    /\ NoSend
    /\ HandlerIdle /\ DotenvIdle
    /\ r_call \in ResolveCalls
    /\ r_result = NotCalled

R_Call ==
    /\ r_result = NotCalled
    /\ r_result' = resolve(r_call)
    /\ UNCHANGED <<self, configured, svars, cvars, hvars, dvars, r_call>>

NextResolve == R_Call

SpecResolve == InitResolve /\ [][NextResolve]_vars

TypeOK ==
    /\ self \in Transports
    /\ request.method \in Methods
    /\ pc \in {"loop", "awaiting", "sleeping", "fallback", "done"}
    /\ retries \in 0..(MaxRetriesBound + 1)
    /\ calls \in 0..(MaxRetriesBound + 2)
    /\ sleeps \in 0..(MaxRetriesBound + 1)

\* ----------------------------------------------------------------- claims
IsResponse(o) == o.kind = "response"
IsException(o) == o.kind = "exception"
\* The send has ended by returning or raising the latest outcome.
EndedWith(o) == pc = "done" /\ result = o
\* The latest outcome has been answered by a retry: the send goes on.
RetriedAfter(o) ==
    /\ pc \in {"sleeping", "loop", "awaiting"}
    /\ retries = o.attempt
    /\ sleeps = o.attempt

\* C1: with max_retries = N >= 0 a send invokes the wrapped transport at most
\* N+1 times, whatever the method and whatever mix of responses and raised
\* errors the invocations produce.
C1_AtMostNPlusOneInvocations ==
    self.max_retries >= 0 => calls <= self.max_retries + 1

C1_Witness ==
    /\ pc = "done"
    /\ self.max_retries = 2
    /\ calls = 3
    /\ IsException(outcome)
    /\ IsResponse(last_response)

\* C2: when every attempt yields a retryable response, the send makes exactly
\* max_retries+1 invocations and returns the response of the final one.
C2_ExhaustionReturnsFinalResponse ==
    (pc = "done" /\ allRetryable /\ self.max_retries >= 0)
        => /\ calls = self.max_retries + 1
           /\ IsResponse(result)
           /\ result = outcome
           /\ result.attempt = calls

C2_Witness ==
    /\ pc = "done"
    /\ allRetryable
    /\ self.max_retries = 2
    /\ calls = 3
    /\ self.class = IdempotentOnlyRetry
    /\ request.method = "GET"
    /\ result.status = 503

\* C3: under IdempotentOnlyRetry a transport error on a POST, PUT, DELETE or
\* PATCH request propagates after exactly one invocation and no sleep.
C3_NonIdempotentErrorPropagatesAtOnce ==
    (/\ self.class = IdempotentOnlyRetry
     /\ request.method \in {"POST", "PUT", "DELETE", "PATCH"}
     /\ IsException(outcome))
        => /\ EndedWith(outcome)
           /\ calls = 1
           /\ sleeps = 0

C5_RateLimitNonIdempotentErrorPropagates ==
    (/\ self.class = RateLimitAwareRetry
     /\ request.method \notin {"HEAD", "GET", "PUT", "DELETE", "OPTIONS", "TRACE"}
     /\ IsException(outcome))
        => /\ EndedWith(outcome)
           /\ calls = outcome.attempt
           /\ sleeps = outcome.attempt - 1

C5_Witness ==
    /\ self.class = RateLimitAwareRetry
    /\ request.method = "POST"
    /\ IsException(outcome)
    /\ outcome.attempt = 2
    /\ last_response.status = 429
    /\ retries < self.max_retries
    /\ pc = "done"

C7_429RetriedForEveryMethod ==
    (/\ self.class = RateLimitAwareRetry
     /\ IsResponse(outcome)
     /\ outcome.status = 429
     /\ outcome.attempt - 1 < self.max_retries)
        => RetriedAfter(outcome)

C7_Witness ==
    /\ self.class = RateLimitAwareRetry
    /\ request.method = "PATCH"
    /\ IsResponse(outcome)
    /\ outcome.status = 429
    /\ outcome.attempt = 2
    /\ pc = "sleeping"

\* C8: under RateLimitAwareRetry with retries left, a response whose status
\* is a 5xx of the configured set is retried if and only if the method is in
\* {HEAD, GET, PUT, DELETE, OPTIONS, TRACE}; otherwise that attempt returns it.
C8_5xxRetriedIffIdempotent ==
    (/\ self.class = RateLimitAwareRetry
     /\ IsResponse(outcome)
     /\ outcome.status \in self.retry_status_codes
     /\ outcome.status >= 500
     /\ outcome.attempt - 1 < self.max_retries)
        => IF request.method \in {"HEAD", "GET", "PUT", "DELETE", "OPTIONS", "TRACE"}
           THEN RetriedAfter(outcome) /\ last_response = outcome
           ELSE EndedWith(outcome)

C8_Witness ==
    /\ self.class = RateLimitAwareRetry
    /\ request.method = "DELETE"
    /\ IsResponse(outcome)
    /\ outcome.status = 503
    /\ pc = "sleeping"

\* C9: when attempt k <= max_retries+1 is the first to get a non-retryable
\* response, the send returns that very response and makes exactly k
\* invocations.
C9_StopsAtFirstNonRetryable ==
    (firstStop # 0 /\ firstStop <= self.max_retries + 1)
        => /\ pc = "done"
           /\ calls = firstStop
           /\ IsResponse(result)
           /\ result.attempt = firstStop
           /\ result = outcome

C9_Witness ==
    /\ firstStop = 2
    /\ self.max_retries = 2
    /\ pc = "done"
    /\ result.status = 200
    /\ IsResponse(last_response)
    /\ last_response.attempt = 1

\* C10: under RateLimitAwareRetry every delay slept lies in
\* 0..max_backoff, whether it came from a Retry-After number, a Retry-After
\* date or the exponential backoff.
C10_DelayWithinCap ==
    (self.class = RateLimitAwareRetry /\ sleeps > 0)
        => (0 <= delay /\ delay <= self.max_backoff)

C10_Witness ==
    /\ self.class = RateLimitAwareRetry
    /\ pc = "sleeping"
    /\ outcome.status = 429
    /\ outcome.ra.kind = "date"
    /\ outcome.ra.date - now > self.max_backoff
    /\ delay = self.max_backoff
    /\ sleeps = 2

\* The exponential backoff of the k-th retry: factor * 2^(k-1), capped.
ExpBackoff(factor, k) == factor * 2^(k - 1)
CappedBackoff(factor, k, cap) ==
    IF ExpBackoff(factor, k) <= cap THEN ExpBackoff(factor, k) ELSE cap
\* The method is idempotent for the active strategy.
IdempotentForStrategy ==
    IF self.class = IdempotentOnlyRetry
    THEN request.method \in {"HEAD", "GET", "OPTIONS", "TRACE"}
    ELSE request.method \in {"HEAD", "GET", "PUT", "DELETE", "OPTIONS", "TRACE"}
\* The latest outcome is a 429 received under RateLimitAwareRetry with
\* retries left.
Got429WithBudget ==
    /\ self.class = RateLimitAwareRetry
    /\ IsResponse(outcome)
    /\ outcome.status = 429
    /\ outcome.attempt - 1 < self.max_retries

\* C11: a 429 whose Retry-After is a non-negative integer n (0 included) is
\* retried after min(n, max_backoff) seconds, whatever the attempt index.
C11_RetryAfterSecondsUsed ==
    \A n \in {0, 2, 300} :
        (/\ Got429WithBudget
         /\ outcome.ra = TextHeader(CASE n = 0 -> <<"0">>
                                      [] n = 2 -> <<"2">>
                                      [] n = 300 -> <<"3", "0", "0">>))
            => /\ RetriedAfter(outcome)
               /\ delay = (IF n <= self.max_backoff THEN n ELSE self.max_backoff)

C11_Witness ==
    /\ Got429WithBudget
    /\ outcome.ra = TextHeader(<<"0">>)
    /\ outcome.attempt = 2
    /\ pc = "sleeping"
    /\ delay = 0

\* C12: a 429 whose Retry-After is absent, empty, a negative integer, a date
\* in the past or unparseable is retried with the exponential backoff of its
\* retry number; the header raises no error.
C12_InvalidRetryAfterFallsBack ==
    (/\ Got429WithBudget
     /\ \/ outcome.ra \in {AbsentHeader, TextHeader(<<>>), TextHeader(<<"-", "1">>),
                           TextHeader(<<"s", "o", "o", "n">>), OverflowDateHeader}
        \/ outcome.ra.kind = "date" /\ outcome.ra.date < now)
        => /\ RetriedAfter(outcome)
           /\ delay = CappedBackoff(self.backoff_factor, outcome.attempt,
                                    self.max_backoff)

\* C13: a 429 whose Retry-After is an HTTP-date T is retried after
\* min(T - now, max_backoff) when T - now >= 0 (0 included); when T - now < 0
\* the header is ignored.
C13_RetryAfterDate ==
    (Got429WithBudget /\ outcome.ra.kind = "date")
        => /\ RetriedAfter(outcome)
           /\ IF outcome.ra.date - now >= 0
              THEN /\ delay = (IF outcome.ra.date - now <= self.max_backoff
                               THEN outcome.ra.date - now ELSE self.max_backoff)
                   /\ delays[Len(delays)].src = "retry_after"
              ELSE /\ delays[Len(delays)].src = "backoff"
                   /\ delay = CappedBackoff(self.backoff_factor, outcome.attempt,
                                            self.max_backoff)

C13_Witness ==
    /\ Got429WithBudget
    /\ outcome.ra.kind = "date"
    /\ outcome.ra.date = now
    /\ pc = "sleeping"
    /\ delay = 0

\* C14: under IdempotentOnlyRetry the delay slept before the k-th retry is
\* backoff_factor * 2^(k-1), uncapped, and each delay is double the one
\* before; with backoff_factor 1 and max_retries 5: 1, 2, 4, 8, 16.
C14_UncappedExponentialDelays ==
    self.class = IdempotentOnlyRetry
        => /\ \A k \in 1..Len(delays) :
                /\ delays[k].d = ExpBackoff(self.backoff_factor, k)
                /\ k > 1 => delays[k].d = 2 * delays[k - 1].d
           /\ (self.backoff_factor = 1 /\ Len(delays) = 5)
                => [k \in 1..5 |-> delays[k].d] = <<1, 2, 4, 8, 16>>

C14_Witness ==
    /\ self.class = IdempotentOnlyRetry
    /\ self.backoff_factor = 1
    /\ self.max_retries = 5
    /\ Len(delays) = 5
    /\ delays[5].d = 16
    /\ pc = "done"

\* C15: under RateLimitAwareRetry a backoff delay computed with
\* attemptsSoFar = a is min(backoff_factor * 2^a, max_backoff); the backoff
\* delays of a send never decrease and stay at max_backoff once there.
C15_CappedExponentialDelays ==
    self.class = RateLimitAwareRetry
        => \A k \in 1..Len(delays) :
              delays[k].src = "backoff"
                => /\ delays[k].d = CappedBackoff(self.backoff_factor, k,
                                                  self.max_backoff)
                   /\ \A j \in 1..(k - 1) :
                         delays[j].src = "backoff"
                           => /\ delays[j].d <= delays[k].d
                              /\ delays[j].d = self.max_backoff
                                   => delays[k].d = self.max_backoff

C15_Witness ==
    /\ self.class = RateLimitAwareRetry
    /\ self.backoff_factor = 2
    /\ self.max_backoff = 3
    /\ Len(delays) = 2
    /\ delays[1] = Slept(2, "backoff")
    /\ delays[2] = Slept(3, "backoff")
    /\ IsException(outcome)

\* C16: what a send yields is the outcome of its last wrapped invocation:
\* that response returned, or that exception raised; never an earlier
\* response, never an error of the retry layer's own.
C16_YieldsLastOutcome ==
    pc = "done"
        => /\ result = outcome
           /\ result.kind \in {"response", "exception"}
           /\ result.attempt = calls

\* C17: for a method that is idempotent for the strategy, when every
\* invocation raises the send makes max_retries+1 invocations with max_retries
\* sleeps and raises the last exception; when instead invocation k is the
\* first not to raise and returns a non-retryable response, that response is
\* returned after exactly k invocations.
C17_TransportErrorsRetriedToExhaustion ==
    /\ (pc = "done" /\ IdempotentForStrategy /\ allRaised /\ self.max_retries >= 0)
          => /\ calls = self.max_retries + 1
             /\ sleeps = self.max_retries
             /\ IsException(result)
             /\ result = outcome
    /\ (/\ IdempotentForStrategy
        /\ firstStop # 0
        /\ stopAfterRaises
        /\ firstStop <= self.max_retries + 1)
          => /\ EndedWith(outcome)
             /\ IsResponse(result)
             /\ calls = firstStop
             /\ sleeps = firstStop - 1

C17_Witness ==
    /\ pc = "done"
    /\ allRaised
    /\ self.class = RateLimitAwareRetry
    /\ request.method = "DELETE"
    /\ self.max_retries = 2
    /\ calls = 3
    /\ sleeps = 2

\* C18: with max_retries = 0 every send makes exactly one invocation and
\* never sleeps; the response is returned, the error propagated.
C18_ZeroRetriesOneInvocation ==
    self.max_retries = 0
        => /\ sleeps = 0
           /\ delays = <<>>
           /\ calls <= 1
           /\ pc \in {"loop", "awaiting", "done"}
           /\ pc = "done" => (calls = 1 /\ result = outcome)

C18_Witness ==
    /\ self.max_retries = 0
    /\ self.class = RateLimitAwareRetry
    /\ pc = "done"
    /\ result.status = 429
    /\ calls = 1

\* C19: a response that is not retryable under the active rules is returned
\* by the attempt that received it, at any attempt index: no invocation and
\* no sleep follow it.
C19_NonRetryableReturnedAtOnce ==
    (IsResponse(outcome) /\ ~RetryableResponse(self, request, outcome))
        => /\ EndedWith(outcome)
           /\ calls = outcome.attempt
           /\ sleeps = outcome.attempt - 1
           /\ Len(delays) = outcome.attempt - 1

C19_Witness ==
    /\ IsResponse(outcome)
    /\ outcome.status = 503
    /\ request.method = "POST"
    /\ self.class = RateLimitAwareRetry
    /\ 503 \in self.retry_status_codes
    /\ outcome.attempt = 2
    /\ pc = "done"

\* A send of `method` run alone on the instance, its attempts ending with
\* the outcomes h in turn: its frame and its `retries`.
RECURSIVE Alone(_, _)
Alone(method, h) ==
    IF h = <<>> THEN <<[NewSend(method) EXCEPT !.pc = "loop"], 0>>
    ELSE LET before == Alone(method, SubSeq(h, 1, Len(h) - 1))
             o == h[Len(h)]
             called == [before[1] EXCEPT !.calls = @ + 1, !.hist = h]
         IN  IF before[2] <= self.max_retries
             THEN BodyStep(called, before[2], o)
             ELSE <<[called EXCEPT !.outcome = o, !.result = o, !.pc = "done"],
                    before[2]>>

InFlight(i) == sends[i].pc \in {"awaiting", "fallback"}

\* C20: with two sends interleaved on one instance, each send's number of
\* invocations, its delays, its remembered response and its final result are
\* those of the same request run alone with the outcomes of its own attempts,
\* and a send makes at most max_retries + 1 invocations.
C20_SendsAreIndependent ==
    \A i \in Sends :
        sends[i].pc # "idle" =>
            LET alone == Alone(sends[i].request.method, sends[i].hist)[1] IN
            /\ sends[i].calls = Len(sends[i].hist) + (IF InFlight(i) THEN 1 ELSE 0)
            /\ sends[i].delays = alone.delays
            /\ sends[i].sleeps = alone.sleeps
            /\ sends[i].last_response = alone.last_response
            /\ sends[i].result = alone.result
            /\ (sends[i].pc = "done") = (alone.pc = "done")
            /\ (self.max_retries >= 0 => sends[i].calls <= self.max_retries + 1)

\* Both sends are under way at once, each after a failure of its own, and
\* their attempts ended differently.
C20_Witness ==
    /\ sends[1].pc = "sleeping"
    /\ sends[2].pc = "awaiting"
    /\ sends[2].sleeps >= 1
    /\ sends[1].hist[1].kind # sends[2].hist[1].kind

\* C21: attempts of one send are strictly sequential.  An invocation starts
\* only from the loop, after the outcome of the previous invocation was
\* received and led to a retry and after the sleep of that retry has elapsed;
\* the send never has more than one invocation in flight.
C21_AttemptsStrictlySequential ==
    /\ [](/\ calls - outcome.attempt \in {0, 1}
          /\ (calls - outcome.attempt = 1) = (pc \in {"awaiting", "fallback"}))
    /\ [][calls' # calls =>
            /\ calls' = calls + 1
            /\ pc = "loop"
            /\ pc' \in {"awaiting", "fallback"}
            /\ outcome.attempt = calls
            /\ retries = calls
            /\ sleeps = calls
            /\ Len(events) = calls]_vars

C21_Witness ==
    /\ pc = "awaiting"
    /\ calls = 3
    /\ sleeps = 2
    /\ outcome.attempt = 2

\* C29: each retry is reported by exactly one log event, emitted once the
\* delay is known and before it is slept: the i-th event carries attempt
\* number i <= max_retries and the delay of the i-th sleep; a terminated send
\* of k invocations has emitted k-1 events, a send without retry none.
C29_OneLogEventPerRetry ==
    /\ Len(events) = sleeps
    /\ Len(events) = Len(delays)
    /\ \A i \in 1..Len(events) :
           /\ events[i].attempt = i
           /\ events[i].attempt <= self.max_retries
           /\ events[i].delay = delays[i].d
    /\ pc = "sleeping" => /\ Len(events) = calls
                          /\ events[Len(events)].delay = delay
    /\ pc = "done" => Len(events) = calls - 1

C29_Witness ==
    /\ pc = "done"
    /\ calls = 3
    /\ Len(events) = 2
    /\ events[1].delay # events[2].delay

\* C30: in every terminated send the number of sleeps is the number of
\* invocations minus one; a sleep comes only after an invocation and is
\* followed by another invocation.
C30_SleepsAreInvocationsMinusOne ==
    /\ pc = "done" => sleeps = calls - 1
    /\ sleeps <= calls
    /\ calls = 0 => sleeps = 0

C30_Witness ==
    /\ pc = "done"
    /\ calls = 3
    /\ sleeps = 2
    /\ IsResponse(result)
    /\ result.status = 200

\* C28: for a transport constructed with a set S of retryable status codes,
\* the empty set included, a response is retried only if its status is in S
\* or, under RateLimitAwareRetry, is 429.
C28_RetriedOnlyIfInConfiguredSet ==
    (/\ ~configured.isNone
     /\ IsResponse(outcome)
     /\ RetriedAfter(outcome))
        => \/ outcome.status \in configured.codes
           \/ self.class = RateLimitAwareRetry /\ outcome.status = 429

\* C24: when every wrapped invocation completes and every sleep elapses, a
\* send eventually terminates: it returns a response or raises an error.
C24_EverySendTerminates ==
    <>(pc = "done" /\ result.kind \in {"response", "exception", "decision_error"})

C24_Witness ==
    /\ pc = "done"
    /\ self.class = RateLimitAwareRetry
    /\ request.method = "POST"
    /\ calls = self.max_retries + 1
    /\ calls = 3
    /\ IsResponse(result)

\* C22: a send cancelled while it is suspended in a sleep or in a wrapped
\* invocation stops at once: the cancellation error reaches the caller and
\* no further invocation or sleep is made, whatever the method and the
\* retries left.
C22_CancellationStopsTheLoop ==
    cancelled
        => /\ pc = "done"
           /\ result.kind = "cancelled"
           /\ result.attempt = calls
           /\ sleeps = Len(events)
           /\ sleeps \in {calls - 1, calls}

\* Cancelled in the sleep after a retryable response, idempotent method,
\* retries left.
C22_Witness ==
    /\ cancelled
    /\ request.method = "GET"
    /\ self.max_retries = 2
    /\ retries = 1
    /\ calls = 1
    /\ sleeps = 1
    /\ IsResponse(outcome)
    /\ outcome.status = 503
    /\ pc = "done"

C25_DotenvLoadedOnce ==
    /\ load_dotenv_calls <= 1
    /\ \A t \in Threads :
           /\ t_pc[t] = "returned" => dotenv_loaded
           /\ t_pc[t] \in {"locked_check", "load", "loaded", "handler", "release"}
                  <=> dotenv_lock = t
    /\ dotenv_loaded => load_dotenv_calls = 1

\* load_dotenv raised in one thread while the two others, past the first
\* check, wait for the lock.
C25_Witness ==
    /\ t_pc["t1"] = "handler"
    /\ t_pc["t2"] = "acquire"
    /\ t_pc["t3"] = "acquire"
    /\ load_dotenv_calls = 1
    /\ ~dotenv_loaded

\* The exception class the status alone determines.
ClassForStatus(status) ==
    CASE status = 400 -> "BadRequestError"
      [] status = 401 -> "UnauthorizedError"
      [] status = 403 -> "ForbiddenError"
      [] status = 404 -> "NotFoundError"
      [] status = 409 -> "ConflictError"
      [] status = 422 -> "ValidationError"
      [] status = 429 -> "RateLimitError"
      [] status \in (400..499) \ {400, 401, 403, 404, 409, 422, 429} -> "ClientError"
      [] status \in 500..599 -> "ServerError"
      [] OTHER -> "APIError"

\* C26: raise_for_status raises nothing exactly when the status is 2xx;
\* otherwise it raises the exception class its status determines, carrying
\* that status.
C26_ExceptionClassFromStatus ==
    h_raised # NotCalled =>
        IF h_response.status_code \in 200..299
        THEN h_raised = Returned
        ELSE h_raised = RaisedError(ClassForStatus(h_response.status_code),
                                    h_response.status_code)

\* The environment variable the call names is set.
NamedVariableSet ==
    /\ ~r_call.env_var_name.isNone
    /\ r_call.env_var_name.str \in EnvNames
    /\ r_call.environ[r_call.env_var_name.str] # PyNone

\* C27: resolve yields the first available source in the order explicit
\* value, environment variable named env_var_name, default; with no source
\* it returns None, or raises CredentialNotFoundError carrying env_var_name
\* when the credential is required.
C27_ResolvePriority ==
    r_result # NotCalled =>
        IF r_call.value # PyNone
        THEN r_result = ReturnedValue(r_call.value)
        ELSE IF NamedVariableSet
        THEN r_result = ReturnedValue(r_call.environ[r_call.env_var_name.str])
        ELSE IF r_call.default # PyNone
        THEN r_result = ReturnedValue(r_call.default)
        ELSE IF r_call.required
        THEN /\ r_result.kind = "raised"
             /\ r_result.env_var_name = r_call.env_var_name
        ELSE r_result = ReturnedValue(PyNone)

\* An empty explicit value wins over a set variable and a default.
C27_Witness ==
    /\ r_result = ReturnedValue(Str(""))
    /\ r_call.value = Str("")
    /\ r_call.required
    /\ NamedVariableSet
    /\ r_call.environ[r_call.env_var_name.str] = Str("from-env")
    /\ r_call.default = Str("fallback")

\* The k-th term of the backoff sequence of the active strategy.
BackoffTerm(k) ==
    IF self.class = IdempotentOnlyRetry
    THEN ExpBackoff(self.backoff_factor, k)
    ELSE CappedBackoff(self.backoff_factor, k, self.max_backoff)

\* C31: the backoff progression of a send is indexed by the total number of
\* retries so far, whatever caused them: every retry, after a response or
\* after a raised error, with a Retry-After delay or not, advances the index
\* by one, and a backoff delay slept before the k-th retry is the k-th term
\* of the sequence.
C31_BackoffIndexedByTotalRetries ==
    /\ Len(delays) = retries
    /\ \A k \in 1..Len(delays) :
           delays[k].src = "backoff" => delays[k].d = BackoffTerm(k)
    /\ pc = "sleeping" => delay = delays[retries].d

\* A 429 retried after its Retry-After delay, then a raised error: the
\* second retry sleeps the second term.
C31_Witness ==
    /\ pc = "sleeping"
    /\ self.backoff_factor = 1
    /\ self.max_backoff = MaxCap
    /\ retries = 2
    /\ delays[1] = Slept(0, "retry_after")
    /\ IsResponse(last_response)
    /\ last_response.attempt = 1
    /\ IsException(outcome)
    /\ delays[2] = Slept(2, "backoff")

\* C32: a Retry-After header sets the delay only for a 429 under
\* RateLimitAwareRetry.  A retried response of any other status under
\* RateLimitAwareRetry, and any retried response under IdempotentOnlyRetry,
\* is followed by the backoff delay of its retry number, whatever its
\* Retry-After header is.
C32_RetryAfterOnlyFor429UnderRateLimit ==
    (/\ IsResponse(outcome)
     /\ RetriedAfter(outcome)
     /\ self.class = IdempotentOnlyRetry \/ outcome.status # 429)
        => /\ delay = BackoffTerm(outcome.attempt)
           /\ delays[outcome.attempt] = Slept(delay, "backoff")
           /\ events[outcome.attempt].delay = delay

\* A 503 with `Retry-After: 2` under RateLimitAwareRetry: the first retry
\* sleeps the first backoff term, 1.
C32_Witness ==
    /\ self.class = RateLimitAwareRetry
    /\ self.backoff_factor = 1
    /\ pc = "sleeping"
    /\ IsResponse(outcome)
    /\ outcome.status = 503
    /\ outcome.ra = TextHeader(<<"2">>)
    /\ outcome.attempt = 1
    /\ delay = 1

\* C33: every wrapped invocation of a send is handed the caller's request
\* value itself, on the first attempt and on every retry and on the post-loop
\* invocation alike, and the send never changes that request.
C33_SameRequestOnEveryAttempt ==
    /\ [](/\ Len(passed) = calls
          /\ \A k \in 1..Len(passed) :
                 passed[k] = WrappedCall(self.wrapped_transport, request))
    /\ [][request' = request]_vars

C33_Witness ==
    /\ pc = "done"
    /\ calls = 3
    /\ Len(passed) = 3
    /\ passed[3] = passed[1]
    /\ passed[3].request = request
    /\ request.method = "PUT"
    /\ IsException(outcome)

\* C34: sends leave the strategy configuration as constructed.  No step of a
\* send, alone or interleaved with another send on the same instance, writes
\* max_retries, backoff_factor, max_backoff, the retry status codes or the
\* wrapped-transport reference, and the idempotent-method sets are those of
\* the class.
C34_ConfigurationUnchangedBySends ==
    /\ [](/\ self \in ConcTransports
          /\ self = (IF self.class = IdempotentOnlyRetry
                     THEN IO_init(self.max_retries, self.backoff_factor, configured)
                     ELSE RL_init(self.max_retries, self.backoff_factor,
                                  self.max_backoff, configured))
          /\ self.wrapped_transport = WrappedTransport)
    /\ [][self' = self /\ configured' = configured]_vars

\* Two sends on one instance have both ended after retries of their own.
C34_Witness ==
    /\ \A i \in Sends : sends[i].pc = "done" /\ sends[i].sleeps = ConcRetries
    /\ self.max_retries = ConcRetries
    /\ self.class = RateLimitAwareRetry
    /\ sends[1].hist # sends[2].hist

\* C35: with max_retries >= 0 the code after the retry loop is unreachable in
\* both strategies.  `retries` never exceeds max_retries, so the loop
\* condition never fails: the loop is left by a return or a raise from inside
\* its body, last_response is never returned from after the loop, and the
\* post-loop invocation, which would be invocation max_retries + 2, is never
\* made.
C35_PostLoopUnreachable ==
    self.max_retries >= 0
        => /\ retries <= self.max_retries
           /\ ~(pc = "loop" /\ ~(retries <= self.max_retries))
           /\ pc # "fallback"
           /\ calls <= self.max_retries + 1
           /\ Len(passed) <= self.max_retries + 1
           /\ pc = "done" => result.attempt = calls

\* The iteration with retries = max_retries got a retryable response and
\* returned it from inside the loop body.
C35_Witness ==
    /\ self.max_retries = 2
    /\ pc = "done"
    /\ retries = 2
    /\ calls = 3
    /\ IsResponse(result)
    /\ result.attempt = 3
    /\ RetryableResponse(self, request, result)
    /\ last_response.attempt = 2

\* C36: a strategy constructed with a negative max_retries never enters the
\* loop body.  The send makes exactly one wrapped invocation, the one after
\* the loop, and returns its response or propagates its error: no retry, no
\* sleep, no log event, whatever the method and the outcome.
C36_NegativeMaxRetriesOneFallbackInvocation ==
    self.max_retries < 0
        => /\ pc \in {"loop", "fallback", "done"}
           /\ retries = 0
           /\ sleeps = 0
           /\ delays = <<>>
           /\ events = <<>>
           /\ last_response = None
           /\ calls = (IF pc = "loop" THEN 0 ELSE 1)
           /\ Len(passed) = calls
           /\ pc = "done" => /\ result = outcome
                             /\ result.attempt = 1
                             /\ result.kind \in {"response", "exception"}

\* A 503 on a GET, retryable by status and method, is returned at once.
C36_Witness ==
    /\ self.max_retries = -1
    /\ self.class = IdempotentOnlyRetry
    /\ request.method = "GET"
    /\ pc = "done"
    /\ calls = 1
    /\ IsResponse(result)
    /\ result.status = 503
    /\ 503 \in self.retry_status_codes
    /\ events = <<>>

====
